---------------------------- MODULE Spec2Model ----------------------------
(***************************************************************************)
(* Model of gdscript_function.cpp: the native-segment extraction of        *)
(* GDScriptFunction::prepare_native_jit and the operand address decoding   *)
(* used by its step builders.                                              *)
(*                                                                         *)
(* Stream positions are the 0-based positions of the C++ code; the word at *)
(* position p of the stream is _code_ptr[p + 1] of the TLA+ sequence.      *)
(* Words are 32-bit signed integers (C++ int).                             *)
(***************************************************************************)
EXTENDS Integers, Sequences, FiniteSets, TLC

(***************************************************************************)
(* Bounds of the model.                                                    *)
(***************************************************************************)
\* longest run of equal instructions put in a generated stream
MaxRun == 10
\* number of raw words appended at the end of a generated stream
MaxTail == 1
\* number of times prepare_native_jit is run on a function
MaxRuns == 2

(***************************************************************************)
(* 32-bit two's complement arithmetic on C++ int values.                   *)
(***************************************************************************)
Pow2_30 == 2 ^ 30

\* the low 31 bits of an int, as a natural number
Low31(x) == IF x >= 0 THEN x ELSE (x + Pow2_30) + Pow2_30

RECURSIVE Or31(_, _, _)
Or31(a, b, n) ==
    IF n = 0 THEN 0
    ELSE (IF (a % 2) + (b % 2) > 0 THEN 1 ELSE 0)
         + 2 * Or31(a \div 2, b \div 2, n - 1)

\* x | y on int
BitOr(x, y) ==
    LET low == Or31(Low31(x), Low31(y), 31)
    IN  IF x < 0 \/ y < 0 THEN (low - Pow2_30) - Pow2_30 ELSE low

\* x & (2^n - 1) on int: the low n bits of the word
LowBits(x, n) == x % (2 ^ n)

\* x & ~(2^n - 1) on int: the word with its low n bits cleared
ClearLowBits(x, n) == x - LowBits(x, n)

\* x >> n on int (arithmetic shift)
ShiftRight(x, n) == x \div (2 ^ n)

\* x << n on a 32-bit word: the bits shifted past bit 31 are lost
RECURSIVE ShiftLeft(_, _)
ShiftLeft(x, n) ==
    IF n = 0 THEN x
    ELSE LET low30 == Low31(x) % Pow2_30
             bit30 == (Low31(x) \div Pow2_30) % 2
             dbl   == 2 * low30
         IN  ShiftLeft(IF bit30 = 1 THEN (dbl - Pow2_30) - Pow2_30 ELSE dbl,
                       n - 1)

\* (uint8_t)x
ToUint8(x) == x % 256

(***************************************************************************)
(* Operand addresses.  ADDR_MASK is (1 << ADDR_BITS) - 1 and               *)
(* ADDR_TYPE_MASK is ~ADDR_MASK.                                           *)
(***************************************************************************)
ADDR_BITS == 24

\* (uint8_t)((address & ADDR_TYPE_MASK) >> ADDR_BITS)
AddrType(address) ==
    ToUint8(ShiftRight(ClearLowBits(address, ADDR_BITS), ADDR_BITS))

\* AddrIndex with a mask that is one bit short
AddrIndex_ShortMask(address) == LowBits(address, ADDR_BITS - 1)

\* (uint32_t)(address & ADDR_MASK)
AddrIndex(address) == LowBits(address, ADDR_BITS)

\* the (space tag, index) pair every step builder stores for an operand
DecodeAddress(address) ==
    [type |-> AddrType(address), index |-> AddrIndex(address)]

\* (tag << ADDR_BITS) | index
EncodeAddress(tag, index) == BitOr(ShiftLeft(tag, ADDR_BITS), index)

(***************************************************************************)
(* Opcodes.  The enumerators are those of GDScriptFunction::Opcode; only   *)
(* their being distinct matters to prepare_native_jit.  The 38 type-adjust *)
(* opcodes are consecutive, in the order of Variant::Type (BOOL = 1 ..     *)
(* PACKED_VECTOR4_ARRAY = 38).                                             *)
(***************************************************************************)
OPCODE_OPERATOR_VALIDATED == 1
OPCODE_SET_KEYED_VALIDATED == 8
OPCODE_SET_INDEXED_VALIDATED == 9
OPCODE_GET_KEYED_VALIDATED == 11
OPCODE_GET_INDEXED_VALIDATED == 12
OPCODE_SET_NAMED_VALIDATED == 14
OPCODE_GET_NAMED_VALIDATED == 16
OPCODE_CALL_UTILITY_VALIDATED == 40
OPCODE_CALL_GDSCRIPT_UTILITY == 41
OPCODE_CALL_BUILTIN_TYPE_VALIDATED == 42
OPCODE_TYPE_ADJUST_BOOL == 60
OPCODE_TYPE_ADJUST_INT == 61
OPCODE_TYPE_ADJUST_PACKED_VECTOR4_ARRAY == 97
\* an opcode of the default: branches (neither fast-path nor multi-word)
OPCODE_OTHER == 0
\* an opcode of the default: branches whose instruction has operand words:
\* the interpreter's assignment (opcode, destination, source)
OPCODE_ASSIGN == 20

TypeAdjustOpcodes ==
    OPCODE_TYPE_ADJUST_BOOL .. OPCODE_TYPE_ADJUST_PACKED_VECTOR4_ARRAY

CallOpcodes ==
    {OPCODE_CALL_BUILTIN_TYPE_VALIDATED, OPCODE_CALL_UTILITY_VALIDATED,
     OPCODE_CALL_GDSCRIPT_UTILITY}

\* Variant::NIL
VARIANT_NIL == 0
\* Variant::OBJECT
VARIANT_OBJECT == 24

k_min_native_steps == 10

(***************************************************************************)
(* State.                                                                  *)
(***************************************************************************)
VARIABLES
    \* the function's bytecode and bound tables (set when it is compiled)
    _code_ptr,                  \* the instruction stream (sequence of words)
    code_is_null,               \* TRUE when _code_ptr is a null pointer
    _operator_funcs_count,
    _setters_count,
    _getters_count,
    _keyed_setters_count,
    _keyed_getters_count,
    _indexed_setters_count,
    _indexed_getters_count,
    _builtin_methods_count,
    _utilities_count,
    _gds_utilities_count,
    native_operator_hints,      \* sequence of [ip, unary]
    \* the results of prepare_native_jit
    native_operator_segments,
    native_segment_index_by_ip,
    native_segments_ready,
    \* the locals of a running prepare_native_jit
    pc,
    segments,
    ip,
    cursor,
    segment,
    \* history
    runs,                       \* number of calls of prepare_native_jit
    prev_result,                \* what the previous call left
    failed,                     \* positions where a step builder failed
    oob_reads,                  \* positions >= _code_size read in this call
    \* one operand word taken through the address decoding
    addr_pc,
    addr_word,
    addr_type,
    addr_index,
    addr_packed

function_vars ==
    <<_code_ptr, code_is_null, _operator_funcs_count, _setters_count,
      _getters_count, _keyed_setters_count, _keyed_getters_count,
      _indexed_setters_count, _indexed_getters_count,
      _builtin_methods_count, _utilities_count, _gds_utilities_count,
      native_operator_hints>>

result_vars ==
    <<native_operator_segments, native_segment_index_by_ip,
      native_segments_ready>>

addr_vars == <<addr_pc, addr_word, addr_type, addr_index, addr_packed>>

jit_vars ==
    <<function_vars, result_vars, pc, segments, ip, cursor, segment, runs,
      prev_result, failed, oob_reads>>

\* the suspended calls (GDScriptFunctionState objects), the two liveness
\* lists, the holder of the language mutex, the calling threads, and the
\* record of list accesses made without the mutex
VARIABLES states, scripts_list, instances_list, mutex, threads, unlocked

state_vars == <<states, scripts_list, instances_list, mutex, threads, unlocked>>

vars == <<jit_vars, addr_vars, state_vars>>

_code_size == IF code_is_null THEN 0 ELSE Len(_code_ptr)

(***************************************************************************)
(* Reading the stream.  A read at a position outside [0, _code_size) is    *)
(* undefined behaviour: it yields whatever lies behind the buffer, which   *)
(* mem (a memory image chosen by the reading step) stands for.             *)
(***************************************************************************)
OOBSpan == 2
OOBValues == {-1, 0, 2}
MemImages == [0 .. OOBSpan - 1 -> OOBValues]
DefaultMem == [k \in 0 .. OOBSpan - 1 |-> 0]

InStream(p) == 0 <= p /\ p < _code_size

Read(mem, p) ==
    IF InStream(p) THEN _code_ptr[p + 1] ELSE mem[p % OOBSpan]

OutOfStream(positions) == {p \in positions : ~InStream(p)}

(***************************************************************************)
(* opcode_size_at and is_supported.                                        *)
(***************************************************************************)
\* opcode_size_at with the operator instruction taken as 4 words long
opcode_size_at_ShortOperator(mem, p_ip) ==
    IF p_ip < 0 \/ p_ip >= _code_size THEN 1
    ELSE LET op == _code_ptr[p_ip + 1]
         IN  CASE op = OPCODE_OPERATOR_VALIDATED -> 4
               [] op \in {OPCODE_SET_NAMED_VALIDATED,
                          OPCODE_GET_NAMED_VALIDATED} -> 4
               [] op \in {OPCODE_SET_KEYED_VALIDATED,
                          OPCODE_GET_KEYED_VALIDATED,
                          OPCODE_SET_INDEXED_VALIDATED,
                          OPCODE_GET_INDEXED_VALIDATED} -> 5
               [] op \in CallOpcodes -> 4 + Read(mem, p_ip + 1)
               [] op \in TypeAdjustOpcodes -> 2
               [] OTHER -> 1

opcode_size_at(mem, p_ip) ==
    IF p_ip < 0 \/ p_ip >= _code_size THEN 1
    ELSE LET op == _code_ptr[p_ip + 1]
         IN  CASE op = OPCODE_OPERATOR_VALIDATED -> 5
               [] op \in {OPCODE_SET_NAMED_VALIDATED,
                          OPCODE_GET_NAMED_VALIDATED} -> 4
               [] op \in {OPCODE_SET_KEYED_VALIDATED,
                          OPCODE_GET_KEYED_VALIDATED,
                          OPCODE_SET_INDEXED_VALIDATED,
                          OPCODE_GET_INDEXED_VALIDATED} -> 5
               [] op \in CallOpcodes -> 4 + Read(mem, p_ip + 1)
               [] op \in TypeAdjustOpcodes -> 2
               [] OTHER -> 1

\* the positions opcode_size_at reads
opcode_size_reads(p_ip) ==
    IF p_ip < 0 \/ p_ip >= _code_size THEN {}
    ELSE IF _code_ptr[p_ip + 1] \in CallOpcodes THEN {p_ip, p_ip + 1}
    ELSE {p_ip}

is_supported(op) ==
    \/ op = OPCODE_OPERATOR_VALIDATED
    \/ op \in {OPCODE_SET_NAMED_VALIDATED, OPCODE_GET_NAMED_VALIDATED}
    \/ op \in {OPCODE_SET_KEYED_VALIDATED, OPCODE_GET_KEYED_VALIDATED,
               OPCODE_SET_INDEXED_VALIDATED, OPCODE_GET_INDEXED_VALIDATED}
    \/ op \in CallOpcodes
    \/ op \in TypeAdjustOpcodes

(***************************************************************************)
(* unary_map: the hints inserted in list order, a later hint of the same   *)
(* ip replacing an earlier one.                                            *)
(***************************************************************************)
unary_map_has(p) ==
    \E k \in 1 .. Len(native_operator_hints) :
        native_operator_hints[k].ip = p

unary_map_value(p) ==
    LET ks == {k \in 1 .. Len(native_operator_hints) :
                   native_operator_hints[k].ip = p}
        last == CHOOSE k \in ks : \A j \in ks : j <= k
    IN  native_operator_hints[last].unary

(***************************************************************************)
(* Step builders.  A builder yields [ok, step, reads]: ok is its bool      *)
(* result, step the NativeStep it filled (meaningful when ok), reads the   *)
(* stream positions it read.  A bound table entry table_ptr[idx] is the    *)
(* handle [table, index].                                                  *)
(***************************************************************************)
NoStep == [kind |-> "NONE"]

Fail(reads) == [ok |-> FALSE, step |-> NoStep, reads |-> reads]

Built(step, reads) == [ok |-> TRUE, step |-> step, reads |-> reads]

Handle(table, idx) == [table |-> table, index |-> idx]

build_operator_step(mem, p) ==
    LET operator_func_index == Read(mem, p + 4)
    IN  IF operator_func_index < 0
           \/ operator_func_index >= _operator_funcs_count
        THEN Fail({p + 4})
        ELSE Built([kind |-> "STEP_OPERATOR",
                    a |-> DecodeAddress(Read(mem, p + 1)),
                    b |-> DecodeAddress(Read(mem, p + 2)),
                    dst |-> DecodeAddress(Read(mem, p + 3)),
                    evaluator |-> Handle("_operator_funcs_ptr",
                                         operator_func_index),
                    unary |-> IF unary_map_has(p) THEN unary_map_value(p)
                              ELSE FALSE],
                   {p + 4, p + 1, p + 2, p + 3})

\* the four keyed/indexed builders differ in the table and the step kind
build_keyed_set_step(mem, p) ==
    LET setter_idx == Read(mem, p + 4)
    IN  IF setter_idx < 0 \/ setter_idx >= _keyed_setters_count
        THEN Fail({p + 4})
        ELSE Built([kind |-> "STEP_KEYED_SET",
                    dst |-> DecodeAddress(Read(mem, p + 1)),
                    key |-> DecodeAddress(Read(mem, p + 2)),
                    value |-> DecodeAddress(Read(mem, p + 3)),
                    setter |-> Handle("_keyed_setters_ptr", setter_idx)],
                   {p + 4, p + 1, p + 2, p + 3})

build_keyed_get_step(mem, p) ==
    LET getter_idx == Read(mem, p + 4)
    IN  IF getter_idx < 0 \/ getter_idx >= _keyed_getters_count
        THEN Fail({p + 4})
        ELSE Built([kind |-> "STEP_KEYED_GET",
                    src |-> DecodeAddress(Read(mem, p + 1)),
                    key |-> DecodeAddress(Read(mem, p + 2)),
                    dst |-> DecodeAddress(Read(mem, p + 3)),
                    getter |-> Handle("_keyed_getters_ptr", getter_idx)],
                   {p + 4, p + 1, p + 2, p + 3})

build_indexed_set_step(mem, p) ==
    LET setter_idx == Read(mem, p + 4)
    IN  IF setter_idx < 0 \/ setter_idx >= _indexed_setters_count
        THEN Fail({p + 4})
        ELSE Built([kind |-> "STEP_INDEXED_SET",
                    dst |-> DecodeAddress(Read(mem, p + 1)),
                    index |-> DecodeAddress(Read(mem, p + 2)),
                    value |-> DecodeAddress(Read(mem, p + 3)),
                    setter |-> Handle("_indexed_setters_ptr", setter_idx)],
                   {p + 4, p + 1, p + 2, p + 3})

build_indexed_get_step(mem, p) ==
    LET getter_idx == Read(mem, p + 4)
    IN  IF getter_idx < 0 \/ getter_idx >= _indexed_getters_count
        THEN Fail({p + 4})
        ELSE Built([kind |-> "STEP_INDEXED_GET",
                    src |-> DecodeAddress(Read(mem, p + 1)),
                    index |-> DecodeAddress(Read(mem, p + 2)),
                    dst |-> DecodeAddress(Read(mem, p + 3)),
                    getter |-> Handle("_indexed_getters_ptr", getter_idx)],
                   {p + 4, p + 1, p + 2, p + 3})

build_named_set_step(mem, p) ==
    LET setter_idx == Read(mem, p + 3)
    IN  IF setter_idx < 0 \/ setter_idx >= _setters_count
        THEN Fail({p + 3})
        ELSE Built([kind |-> "STEP_NAMED_SET",
                    dst |-> DecodeAddress(Read(mem, p + 1)),
                    value |-> DecodeAddress(Read(mem, p + 2)),
                    setter |-> Handle("_setters_ptr", setter_idx)],
                   {p + 3, p + 1, p + 2})

build_named_get_step(mem, p) ==
    LET getter_idx == Read(mem, p + 3)
    IN  IF getter_idx < 0 \/ getter_idx >= _getters_count
        THEN Fail({p + 3})
        ELSE Built([kind |-> "STEP_NAMED_GET",
                    src |-> DecodeAddress(Read(mem, p + 1)),
                    dst |-> DecodeAddress(Read(mem, p + 2)),
                    getter |-> Handle("_getters_ptr", getter_idx)],
                   {p + 3, p + 1, p + 2})

\* arg_types / arg_indices of a call step: the argc_value words at addr_base
CallArgs(mem, addr_base, argc_value) ==
    [i \in 1 .. argc_value |-> DecodeAddress(Read(mem, addr_base + i - 1))]

build_call_step(mem, p) ==
    LET instr_argc == Read(mem, p + 1)
        argc_value == Read(mem, p + 2 + instr_argc)
        addr_base  == p + 2
        head_reads == {p + 1, p + 2 + instr_argc, p}
        arg_reads  == {addr_base + i : i \in 0 .. argc_value - 1}
    IN  IF instr_argc < 0 THEN Fail({p + 1})
        ELSE IF argc_value < 0 THEN Fail({p + 1, p + 2 + instr_argc})
        ELSE IF Read(mem, p) = OPCODE_CALL_BUILTIN_TYPE_VALIDATED
        THEN LET base_pos   == addr_base + argc_value
                 dst_pos    == base_pos + 1
                 func_pos   == dst_pos + 2
                 func_index == Read(mem, func_pos)
             IN  IF func_index < 0 \/ func_index >= _builtin_methods_count
                 THEN Fail(head_reads \cup {func_pos})
                 ELSE Built([kind |-> "STEP_CALL_VALIDATED",
                             call_kind |-> "CALL_BUILTIN",
                             argc |-> argc_value,
                             base |-> DecodeAddress(Read(mem, base_pos)),
                             dst |-> DecodeAddress(Read(mem, dst_pos)),
                             func |-> Handle("_builtin_methods_ptr",
                                             func_index),
                             args |-> CallArgs(mem, addr_base, argc_value)],
                            head_reads \cup {func_pos, base_pos, dst_pos}
                                \cup arg_reads)
        ELSE IF Read(mem, p) = OPCODE_CALL_UTILITY_VALIDATED
        THEN LET dst_pos  == addr_base + argc_value
                 func_pos == dst_pos + 2
             IN  \* the word at func_pos is taken as the function itself
                 Built([kind |-> "STEP_CALL_VALIDATED",
                        call_kind |-> "CALL_UTILITY",
                        argc |-> argc_value,
                        dst |-> DecodeAddress(Read(mem, dst_pos)),
                        func |-> Handle("_utilities_ptr",
                                        Read(mem, func_pos)),
                        args |-> CallArgs(mem, addr_base, argc_value)],
                       head_reads \cup {func_pos, dst_pos} \cup arg_reads)
        ELSE IF Read(mem, p) = OPCODE_CALL_GDSCRIPT_UTILITY
        THEN LET dst_pos  == addr_base + argc_value
                 func_pos == dst_pos + 2
             IN  Built([kind |-> "STEP_CALL_VALIDATED",
                        call_kind |-> "CALL_GDS_UTILITY",
                        argc |-> argc_value,
                        dst |-> DecodeAddress(Read(mem, dst_pos)),
                        func |-> Handle("_gds_utilities_ptr",
                                        Read(mem, func_pos)),
                        args |-> CallArgs(mem, addr_base, argc_value)],
                       head_reads \cup {func_pos, dst_pos} \cup arg_reads)
        ELSE Fail(head_reads)

\* the Variant::Type an opcode of the inner switch maps to
AdjustTargetType(current_op) ==
    IF current_op \in TypeAdjustOpcodes
    THEN current_op - OPCODE_TYPE_ADJUST_BOOL + 1
    ELSE VARIANT_NIL

build_type_adjust_step(mem, p, type) ==
    Built([kind |-> "STEP_TYPE_ADJUST",
           dst |-> DecodeAddress(Read(mem, p + 1)),
           target_type |-> type],
          {p + 1})

\* the switch on current_op of the inner loop
BuildStep(mem, p) ==
    LET current_op == _code_ptr[p + 1]
    IN  CASE current_op = OPCODE_OPERATOR_VALIDATED ->
                 build_operator_step(mem, p)
          [] current_op = OPCODE_SET_NAMED_VALIDATED ->
                 build_named_set_step(mem, p)
          [] current_op = OPCODE_GET_NAMED_VALIDATED ->
                 build_named_get_step(mem, p)
          [] current_op = OPCODE_SET_KEYED_VALIDATED ->
                 build_keyed_set_step(mem, p)
          [] current_op = OPCODE_GET_KEYED_VALIDATED ->
                 build_keyed_get_step(mem, p)
          [] current_op = OPCODE_SET_INDEXED_VALIDATED ->
                 build_indexed_set_step(mem, p)
          [] current_op = OPCODE_GET_INDEXED_VALIDATED ->
                 build_indexed_get_step(mem, p)
          [] current_op \in CallOpcodes ->
                 build_call_step(mem, p)
          [] OTHER ->
                 IF AdjustTargetType(current_op) = VARIANT_NIL
                 THEN Fail({})
                 ELSE build_type_adjust_step(mem, p,
                                             AdjustTargetType(current_op))

(***************************************************************************)
(* The functions the model is run on: instruction streams, table lengths   *)
(* and operator hints as the compiler may have left them.                  *)
(***************************************************************************)
\* operand words: stack slot 3, constant 1, and a word with every bit set
AddrStack == 0 * 2 ^ ADDR_BITS + 3
AddrConst == 2 ^ ADDR_BITS + 1
AddrAllOnes == 0 - 1

OperatorInstr(idx) ==
    <<OPCODE_OPERATOR_VALIDATED, AddrStack, AddrConst, AddrStack, idx>>

NamedInstr(op, idx) == <<op, AddrStack, AddrConst, idx>>

KeyedInstr(op, idx) == <<op, AddrStack, AddrConst, AddrAllOnes, idx>>

AdjustInstr(op) == <<op, AddrStack>>

\* opcode, instr_argc, arguments, base, destination, argc, method index
CallBuiltinInstr(args, idx) ==
    <<OPCODE_CALL_BUILTIN_TYPE_VALIDATED, Len(args) + 2>> \o args
        \o <<AddrStack, AddrConst, Len(args), idx>>

\* opcode, instr_argc, arguments, destination, argc, function word
CallUtilityInstr(op, args, func) ==
    <<op, Len(args) + 1>> \o args \o <<AddrConst, Len(args), func>>

RECURSIVE Rep(_, _)
Rep(instr, n) == IF n = 0 THEN <<>> ELSE instr \o Rep(instr, n - 1)

RECURSIVE WordSeqs(_, _)
WordSeqs(words, n) ==
    IF n = 0 THEN {<<>>}
    ELSE LET shorter == WordSeqs(words, n - 1)
         IN  shorter \cup {t \o <<w>> : t \in shorter, w \in words}

RunInstrs ==
    {OperatorInstr(0),
     NamedInstr(OPCODE_SET_NAMED_VALIDATED, 0),
     NamedInstr(OPCODE_GET_NAMED_VALIDATED, 0),
     KeyedInstr(OPCODE_SET_KEYED_VALIDATED, 0),
     KeyedInstr(OPCODE_GET_KEYED_VALIDATED, 0),
     KeyedInstr(OPCODE_SET_INDEXED_VALIDATED, 0),
     KeyedInstr(OPCODE_GET_INDEXED_VALIDATED, 0),
     CallBuiltinInstr(<<AddrStack>>, 0),
     CallUtilityInstr(OPCODE_CALL_UTILITY_VALIDATED, <<>>, 0),
     CallUtilityInstr(OPCODE_CALL_GDSCRIPT_UTILITY, <<AddrStack, AddrConst>>,
                      0),
     AdjustInstr(OPCODE_TYPE_ADJUST_INT)}

\* what separates two runs: nothing, plain opcodes, an instruction of a
\* plain opcode with an operand word that equals a fast-path opcode,
\* instructions with a table index outside the table, malformed calls
Separators ==
    {<<>>,
     <<OPCODE_OTHER>>,
     <<OPCODE_OTHER, OPCODE_TYPE_ADJUST_BOOL, OPCODE_OTHER>>,
     OperatorInstr(5),
     OperatorInstr(-1),
     NamedInstr(OPCODE_GET_NAMED_VALIDATED, 7),
     KeyedInstr(OPCODE_SET_INDEXED_VALIDATED, 7),
     CallBuiltinInstr(<<>>, 9),
     CallUtilityInstr(OPCODE_CALL_UTILITY_VALIDATED, <<>>, 7),
     CallUtilityInstr(OPCODE_CALL_GDSCRIPT_UTILITY, <<AddrStack>>, -1),
     <<OPCODE_CALL_UTILITY_VALIDATED, -1, AddrStack, 0, 0>>,
     <<OPCODE_CALL_UTILITY_VALIDATED, 1, AddrStack, -1, 0>>}

PlainSeparators == {<<>>, <<OPCODE_OTHER>>, OperatorInstr(5)}

TailWords ==
    {OPCODE_OTHER, OPCODE_OPERATOR_VALIDATED, OPCODE_GET_NAMED_VALIDATED,
     OPCODE_CALL_UTILITY_VALIDATED, OPCODE_TYPE_ADJUST_INT}

RunLens == (k_min_native_steps - 1) .. MaxRun

\* n validated operator instructions back to back
OperatorStreams == {Rep(OperatorInstr(idx), n) : idx \in {0}, n \in 0 .. MaxRun}

\* a run of any fast-path kind, a separator, a run of type adjusts
MixedStreams ==
    {Rep(instr, n1) \o sep \o Rep(AdjustInstr(OPCODE_TYPE_ADJUST_INT), n2) :
        instr \in RunInstrs, n1 \in RunLens, sep \in PlainSeparators,
        n2 \in {0, MaxRun}}

\* runs of type adjusts around an instruction a builder may refuse
BrokenStreams ==
    {Rep(AdjustInstr(OPCODE_TYPE_ADJUST_PACKED_VECTOR4_ARRAY), n1) \o sep
        \o plain \o Rep(AdjustInstr(OPCODE_TYPE_ADJUST_BOOL), n2) :
        n1 \in {0} \cup RunLens, sep \in Separators,
        plain \in {<<>>, <<OPCODE_OTHER>>}, n2 \in {0, MaxRun}}

\* two runs of type adjusts, then raw words: the last instruction of the
\* stream may be cut short
RaggedStreams ==
    {Rep(AdjustInstr(OPCODE_TYPE_ADJUST_PACKED_VECTOR4_ARRAY), n1)
        \o <<OPCODE_OTHER>> \o Rep(AdjustInstr(OPCODE_TYPE_ADJUST_BOOL), MaxRun)
        \o tail :
        n1 \in RunLens, tail \in WordSeqs(TailWords, MaxTail)}

\* an assignment, its destination word being stack slot 3 or stack slot 60
\* (the number of OPCODE_TYPE_ADJUST_BOOL), then a run of type adjusts
OperandStreams ==
    {<<OPCODE_ASSIGN, dst, AddrStack>>
        \o Rep(AdjustInstr(OPCODE_TYPE_ADJUST_INT), n) :
        dst \in {AddrStack, OPCODE_TYPE_ADJUST_BOOL},
        n \in {MaxRun - 1, MaxRun}}

Streams ==
    OperatorStreams \cup MixedStreams \cup BrokenStreams \cup RaggedStreams
        \cup OperandStreams

TableConfigs ==
    {[operator_funcs |-> 2, setters |-> 2, getters |-> 2, keyed_setters |-> 2,
      keyed_getters |-> 2, indexed_setters |-> 2, indexed_getters |-> 2,
      builtin_methods |-> 2, utilities |-> 2, gds_utilities |-> 2],
     [operator_funcs |-> 1, setters |-> 3, getters |-> 8, keyed_setters |-> 1,
      keyed_getters |-> 3, indexed_setters |-> 1, indexed_getters |-> 2,
      builtin_methods |-> 1, utilities |-> 1, gds_utilities |-> 3]}

HintLists ==
    {<<>>, <<[ip |-> 0, unary |-> TRUE], [ip |-> 5, unary |-> FALSE]>>}

NoResult == [valid |-> FALSE, segments |-> <<>>, index |-> <<>>]

(***************************************************************************)
(* GDScriptFunctionState: the suspended calls of a function, the two       *)
(* liveness lists they are linked into, and the threads that call resume,  *)
(* is_valid, _signal_callback and the destructor on them.                  *)
(***************************************************************************)
MaxStates == 3
MaxThreads == 2
MaxOps == 2
MaxArgs == 3
MaxSlots == 1

StateIds == 1 .. MaxStates
Threads == 1 .. MaxThreads

\* a Variant: its type and what it holds (nothing, one integer, the
\* elements of an Array, or the id of the object referred to; id 0 is null)
Nil == [type |-> "NIL", items |-> <<>>]
IntValue(v) == [type |-> "INT", items |-> <<v>>]
BoolValue(b) == [type |-> "BOOL", items |-> <<IF b THEN 1 ELSE 0>>]
ArrayValue(elems) == [type |-> "ARRAY", items |-> elems]
StateRef(id) == [type |-> "OBJECT", items |-> <<id>>]

\* a slot that holds no GDScriptFunctionState
NoState ==
    [exists |-> FALSE, function |-> 0, instance |-> FALSE, stack_size |-> 0,
     result |-> Nil, first_state |-> 0, entered |-> 0,
     finalized |-> {}, created_by |-> 0, handed_over |-> FALSE]

\* a thread that is in none of the calls
IdleThread ==
    [op |-> "none", pc |-> "idle", self |-> 0, p_args |-> <<>>, p_arg |-> Nil,
     p_extended_check |-> FALSE, ret |-> Nil, error |-> "CALL_OK",
     argument |-> 0, expected |-> 0,
     resume_calls |-> 0, resume_ret |-> Nil, interp_ret |-> Nil,
     entered |-> FALSE, completed |-> FALSE,
     stack_size_before |-> 0, ops |-> 0]

\* no suspended call exists
StateIdle ==
    /\ states = [s \in StateIds |-> NoState]
    /\ scripts_list = {}
    /\ instances_list = {}
    /\ mutex = 0
    /\ threads = [t \in Threads |-> IdleThread]
    /\ unlocked = {}

\* no operand word is being decoded
AddrIdle ==
    /\ addr_pc = "none"
    /\ addr_word = 0
    /\ addr_type = 0
    /\ addr_index = 0
    /\ addr_packed = 0

Init ==
    /\ AddrIdle
    /\ StateIdle
    /\ \/ /\ code_is_null = FALSE
          /\ _code_ptr \in Streams
       \/ /\ code_is_null = TRUE
          /\ _code_ptr = <<>>
    /\ \E t \in TableConfigs :
          /\ _operator_funcs_count = t.operator_funcs
          /\ _setters_count = t.setters
          /\ _getters_count = t.getters
          /\ _keyed_setters_count = t.keyed_setters
          /\ _keyed_getters_count = t.keyed_getters
          /\ _indexed_setters_count = t.indexed_setters
          /\ _indexed_getters_count = t.indexed_getters
          /\ _builtin_methods_count = t.builtin_methods
          /\ _utilities_count = t.utilities
          /\ _gds_utilities_count = t.gds_utilities
    /\ native_operator_hints \in HintLists
    /\ native_operator_segments = <<>>
    /\ native_segment_index_by_ip = <<>>
    /\ native_segments_ready = FALSE
    /\ pc = "idle"
    /\ segments = <<>>
    /\ ip = 0
    /\ cursor = 0
    /\ segment = [start_ip |-> 0, steps |-> <<>>]
    /\ runs = 0
    /\ prev_result = NoResult
    /\ failed = {}
    /\ oob_reads = {}

(***************************************************************************)
(* prepare_native_jit, one action per step of its control flow.            *)
(***************************************************************************)
\* entry: the clears, and the return on a null code pointer
Enter ==
    /\ pc \in {"idle", "done"}
    /\ runs < MaxRuns
    /\ runs' = runs + 1
    /\ prev_result' = IF runs = 0 THEN NoResult
                      ELSE [valid |-> TRUE,
                            segments |-> native_operator_segments,
                            index |-> native_segment_index_by_ip]
    /\ native_operator_segments' = <<>>
    /\ native_segment_index_by_ip' = <<>>
    /\ native_segments_ready' = code_is_null
    /\ pc' = IF code_is_null THEN "done" ELSE "scan"
    /\ segments' = <<>>
    /\ ip' = 0
    /\ failed' = {}
    /\ oob_reads' = {}
    /\ UNCHANGED <<state_vars, addr_vars, function_vars, cursor, segment>>

\* outer loop, opcode not supported: ip += opcode_size_at(ip)
ScanSkip ==
    /\ pc = "scan"
    /\ ip < _code_size
    /\ ~is_supported(_code_ptr[ip + 1])
    /\ ip' = ip + opcode_size_at(DefaultMem, ip)
    /\ UNCHANGED <<state_vars, addr_vars, function_vars, result_vars, pc, segments, cursor, segment,
                   runs, prev_result, failed, oob_reads>>

\* outer loop, opcode supported: a segment is opened at ip
ScanOpen ==
    /\ pc = "scan"
    /\ ip < _code_size
    /\ is_supported(_code_ptr[ip + 1])
    /\ segment' = [start_ip |-> ip, steps |-> <<>>]
    /\ cursor' = ip
    /\ pc' = "extend"
    /\ UNCHANGED <<state_vars, addr_vars, function_vars, result_vars, segments, ip, runs,
                   prev_result, failed, oob_reads>>

\* the memory images a step at p may see: one when it reads inside the
\* stream only, every image otherwise
ImagesAt(p) ==
    LET probe == BuildStep(DefaultMem, p)
        reads == probe.reads
                   \cup (IF probe.ok THEN opcode_size_reads(p) ELSE {})
    IN  IF OutOfStream(reads) = {} THEN {DefaultMem} ELSE MemImages

\* inner loop, one supported instruction at cursor: build its step; on
\* failure cursor = _code_size, else push the step and advance
ExtendWith(mem) ==
    LET r == BuildStep(mem, cursor)
    IN  IF r.ok
        THEN /\ segment' = [segment EXCEPT !.steps = Append(@, r.step)]
             /\ cursor' = cursor + opcode_size_at(mem, cursor)
             /\ failed' = failed
             /\ oob_reads' = oob_reads
                    \cup OutOfStream(r.reads \cup opcode_size_reads(cursor))
        ELSE /\ segment' = segment
             /\ cursor' = _code_size
             /\ failed' = failed \cup {cursor}
             /\ oob_reads' = oob_reads \cup OutOfStream(r.reads)

Extend ==
    /\ pc = "extend"
    /\ cursor < _code_size
    /\ is_supported(_code_ptr[cursor + 1])
    /\ \E mem \in ImagesAt(cursor) : ExtendWith(mem)
    /\ UNCHANGED <<state_vars, addr_vars, function_vars, result_vars, pc, segments, ip, runs,
                   prev_result>>

\* the same instruction when its reads leave the stream: such a read is
\* undefined, and besides yielding some word (Extend) it may stop the
\* process inside prepare_native_jit, which then never returns
ExtendFault ==
    /\ pc = "extend"
    /\ cursor < _code_size
    /\ is_supported(_code_ptr[cursor + 1])
    /\ ImagesAt(cursor) # {DefaultMem}
    /\ pc' = "fault"
    /\ oob_reads' = oob_reads \cup OutOfStream(BuildStep(DefaultMem, cursor).reads)
    /\ UNCHANGED <<state_vars, addr_vars, function_vars, result_vars, segments, ip, cursor,
                   segment, runs, prev_result, failed>>

\* CloseSegment with the outer scan resumed at the next word, not at cursor
CloseSegment_NoJump ==
    /\ pc = "extend"
    /\ ~(cursor < _code_size /\ is_supported(_code_ptr[cursor + 1]))
    /\ segments' = Append(segments, [start_ip |-> segment.start_ip,
                                     end_ip |-> cursor,
                                     steps |-> segment.steps])
    /\ ip' = ip + 1
    /\ pc' = "scan"
    /\ UNCHANGED <<state_vars, addr_vars, function_vars, result_vars, cursor, segment,
                   runs, prev_result, failed, oob_reads>>

\* inner loop left: end_ip = cursor, the segment is pushed, ip = cursor
CloseSegment ==
    /\ pc = "extend"
    /\ ~(cursor < _code_size /\ is_supported(_code_ptr[cursor + 1]))
    /\ segments' = Append(segments, [start_ip |-> segment.start_ip,
                                     end_ip |-> cursor,
                                     steps |-> segment.steps])
    /\ ip' = cursor
    /\ pc' = "scan"
    /\ UNCHANGED <<state_vars, addr_vars, function_vars, result_vars, cursor, segment, runs,
                   prev_result, failed, oob_reads>>

\* outer loop left: native_operator_segments = segments
ScanEnd ==
    /\ pc = "scan"
    /\ ip >= _code_size
    /\ native_operator_segments' = segments
    /\ pc' = "filter"
    /\ UNCHANGED <<state_vars, addr_vars, function_vars, native_segment_index_by_ip,
                   native_segments_ready, segments, ip, cursor, segment,
                   runs, prev_result, failed, oob_reads>>

\* Filtered with the threshold test off by one (<= for <)
Filtered_OffByOne(segs) ==
    SelectSeq(segs, LAMBDA seg : ~(Len(seg.steps) <= k_min_native_steps))

\* the segments with at least k_min_native_steps steps, in order
Filtered(segs) ==
    SelectSeq(segs, LAMBDA seg : ~(Len(seg.steps) < k_min_native_steps))

FilterSegments ==
    /\ pc = "filter"
    /\ native_operator_segments' =
           IF native_operator_segments # <<>>
           THEN Filtered(native_operator_segments)
           ELSE native_operator_segments
    /\ pc' = "index"
    /\ UNCHANGED <<state_vars, addr_vars, function_vars, native_segment_index_by_ip,
                   native_segments_ready, segments, ip, cursor, segment,
                   runs, prev_result, failed, oob_reads>>

\* SegmentIndex with the slot written at end_ip instead of start_ip
SegmentIndex_AtEnd(segs, size) ==
    [q \in 1 .. size |->
        LET is == {i \in 1 .. Len(segs) :
                      /\ segs[i].end_ip >= 0
                      /\ segs[i].end_ip < size
                      /\ segs[i].end_ip = q - 1}
        IN  IF is = {} THEN -1
            ELSE (CHOOSE i \in is : \A j \in is : j <= i) - 1]

\* resize(_code_size), fill(-1), then write[seg.start_ip] = i for i = 0, 1..
\* in this order: the last segment that starts at a position wins
SegmentIndex(segs, size) ==
    [q \in 1 .. size |->
        LET is == {i \in 1 .. Len(segs) :
                      /\ segs[i].start_ip >= 0
                      /\ segs[i].start_ip < size
                      /\ segs[i].start_ip = q - 1}
        IN  IF is = {} THEN -1
            ELSE (CHOOSE i \in is : \A j \in is : j <= i) - 1]

BuildIndex ==
    /\ pc = "index"
    /\ native_segment_index_by_ip' =
           IF _code_size > 0
           THEN SegmentIndex(native_operator_segments, _code_size)
           ELSE native_segment_index_by_ip
    /\ native_segments_ready' = TRUE
    /\ pc' = "done"
    /\ UNCHANGED <<state_vars, addr_vars, function_vars, native_operator_segments, segments, ip,
                   cursor, segment, runs, prev_result, failed, oob_reads>>

Next ==
    \/ Enter
    \/ ScanSkip
    \/ ScanOpen
    \/ Extend
    \/ ExtendFault
    \/ CloseSegment
    \/ ScanEnd
    \/ FilterSegments
    \/ BuildIndex

Spec == Init /\ [][Next]_vars

(***************************************************************************)
(* The address decoding on its own: an operand word is decoded as the step *)
(* builders decode it, and the pair is packed again.                       *)
(***************************************************************************)
\* number of low and of high index values of each address space
MaxAddrIndex == 2

AddrTags == {0, 1, 2, 5, 126, 127, 128, 129, 254, 255}

AddrIndices ==
    (0 .. MaxAddrIndex)
        \cup {2 ^ ADDR_BITS - 1 - k : k \in 0 .. MaxAddrIndex}
        \cup {2 ^ (ADDR_BITS - 1), 2 ^ (ADDR_BITS - 1) - 1}

\* the int whose bits 24..31 are tag and whose bits 0..23 are index
PackedWord(tag, index) ==
    (IF tag >= 128 THEN tag - 256 ELSE tag) * (2 ^ ADDR_BITS) + index

AddrWords == {PackedWord(t, i) : t \in AddrTags, i \in AddrIndices}

\* prepare_native_jit is not running and has no function to work on
JitIdle ==
    /\ code_is_null = TRUE
    /\ _code_ptr = <<>>
    /\ _operator_funcs_count = 0
    /\ _setters_count = 0
    /\ _getters_count = 0
    /\ _keyed_setters_count = 0
    /\ _keyed_getters_count = 0
    /\ _indexed_setters_count = 0
    /\ _indexed_getters_count = 0
    /\ _builtin_methods_count = 0
    /\ _utilities_count = 0
    /\ _gds_utilities_count = 0
    /\ native_operator_hints = <<>>
    /\ native_operator_segments = <<>>
    /\ native_segment_index_by_ip = <<>>
    /\ native_segments_ready = FALSE
    /\ pc = "idle"
    /\ segments = <<>>
    /\ ip = 0
    /\ cursor = 0
    /\ segment = [start_ip |-> 0, steps |-> <<>>]
    /\ runs = 0
    /\ prev_result = NoResult
    /\ failed = {}
    /\ oob_reads = {}

AddrInit ==
    /\ JitIdle
    /\ StateIdle
    /\ addr_pc = "packed"
    /\ addr_word \in AddrWords
    /\ addr_type = 0
    /\ addr_index = 0
    /\ addr_packed = 0

AddrDecode ==
    /\ addr_pc = "packed"
    /\ addr_type' = AddrType(addr_word)
    /\ addr_index' = AddrIndex(addr_word)
    /\ addr_pc' = "decoded"
    /\ UNCHANGED <<state_vars, jit_vars, addr_word, addr_packed>>

AddrEncode ==
    /\ addr_pc = "decoded"
    /\ addr_packed' = EncodeAddress(addr_type, addr_index)
    /\ addr_pc' = "encoded"
    /\ UNCHANGED <<state_vars, jit_vars, addr_word, addr_type, addr_index>>

AddrNext == AddrDecode \/ AddrEncode

SpecAddr == AddrInit /\ [][AddrNext]_vars

(***************************************************************************)
(* GDScriptFunctionState.  A thread calls resume, is_valid,                *)
(* _signal_callback or the destructor on a suspended call and runs it      *)
(* statement by statement; the interpreter (function->call) and the        *)
(* teardown of a script or an instance are the environment.                *)
(***************************************************************************)
FIXED_ADDRESSES_MAX == 3

\* the saved stack: the fixed addresses and MaxSlots slots of the call
StackSize == FIXED_ADDRESSES_MAX + MaxSlots
\* the values resume is called with, and the values a call returns
ResumeArgs == {IntValue(2)}
InterpValues == {IntValue(1)}

\* the values a signal passes before the bound handle: n of them, counted
\* down
ValueSeqs(n) == {[i \in 1 .. n |-> IntValue(n + 1 - i)]}

\* the argument arrays of a signal emission connected to s: none at all,
\* or no value, one value or MaxArgs - 1 values and then the bound handle
\* of s (or, wrongly, no object, or a null object after MaxArgs - 1 values)
CallbackArgs(s) ==
    {<<>>} \cup
    {Append(front, last) :
        front \in UNION {ValueSeqs(n) : n \in {0, 1, MaxArgs - 1}},
        last \in {Nil, StateRef(s)}} \cup
    {Append(front, StateRef(0)) : front \in ValueSeqs(MaxArgs - 1)}

\* a call suspended by the interpreter: function set, stack saved
Suspended(f, inst, size, parent) ==
    [exists |-> TRUE, function |-> f, instance |-> inst, stack_size |-> size,
     result |-> Nil, first_state |-> 0, entered |-> 0,
     finalized |-> {}, created_by |-> parent, handed_over |-> parent = 0]

\* the first suspension of a call: linked into the list of its script and,
\* when bound to an instance, into the list of that instance
StateInit ==
    /\ JitIdle
    /\ AddrIdle
    /\ \E inst \in BOOLEAN :
          /\ states = [s \in StateIds |->
                          IF s = 1 THEN Suspended(1, inst, StackSize, 0)
                          ELSE NoState]
          /\ instances_list = IF inst THEN {1} ELSE {}
    /\ scripts_list = {1}
    /\ mutex = 0
    /\ threads = [t \in Threads |-> IdleThread]
    /\ unlocked = {}

\* the script is gone, or the call is bound to an instance that is gone
Stale(s) ==
    \/ s \notin scripts_list
    \/ states[s].instance /\ s \notin instances_list

\* a thread can call into s: the object is alive and its handle has reached
\* a caller (control returns to the caller before the next resume)
Callable(s) == states[s].exists /\ states[s].handed_over

\* the calls made so far by the threads 1 .. n
RECURSIVE OpsOf(_)
OpsOf(n) == IF n = 0 THEN 0 ELSE threads[n].ops + OpsOf(n - 1)

Busy(t) == threads[t].pc \notin {"idle", "returned"}

\* no call has just returned: the caller of a call that returns takes the
\* result (Leave) before any statement is run; Leave touches nothing but
\* the record of its own thread, so no interleaving of the calls is lost
Quiet == \A t \in Threads : threads[t].pc # "returned"

\* t is in no call, and fewer than MaxOps calls have been made; a call is
\* made by the first thread that is in no call
Free(t) ==
    /\ ~Busy(t)
    /\ \A u \in Threads : u < t => Busy(u)
    /\ OpsOf(MaxThreads) < MaxOps

Begin(t, opname, first_pc, s) ==
    [IdleThread EXCEPT !.op = opname, !.pc = first_pc, !.self = s,
                       !.ops = threads[t].ops + 1]

\* a list is read or written by t: noted when t does not hold the mutex
Access(t, what) == IF mutex = t THEN unlocked ELSE unlocked \cup {what}

\* the MutexLock of t goes out of scope
Release(t) == IF mutex = t THEN 0 ELSE mutex

\* resume returns value: to the caller, or to _signal_callback
Returned(th, value) ==
    IF th.op = "signal_callback"
    THEN [th EXCEPT !.resume_ret = value, !.pc = "callback_return"]
    ELSE [th EXCEPT !.ret = value, !.pc = "returned"]

\* resume(p_arg) is called on s: ERR_FAIL_NULL_V(function, Variant())
StartResume(t, s, v) ==
    /\ Free(t)
    /\ Callable(s)
    /\ Quiet
    /\ threads' = [threads EXCEPT ![t] =
           LET th == [Begin(t, "resume", "resume_lock", s) EXCEPT !.p_arg = v]
           IN  IF states[s].function = 0 THEN Returned(th, Nil) ELSE th]
    /\ UNCHANGED <<jit_vars, addr_vars, states, scripts_list, instances_list,
                   mutex, unlocked>>

\* ResumeLock taking no lock
ResumeLock_NoLock(t) ==
    /\ threads[t].pc = "resume_lock"
    /\ Quiet
    /\ threads' = [threads EXCEPT ![t].pc = "resume_check"]
    /\ UNCHANGED <<jit_vars, addr_vars, states, scripts_list, instances_list,
                   mutex, unlocked>>

\* MutexLock lock(GDScriptLanguage::singleton->mutex)
ResumeLock(t) ==
    /\ threads[t].pc = "resume_lock"
    /\ Quiet
    /\ mutex = 0
    /\ mutex' = t
    /\ threads' = [threads EXCEPT ![t].pc = "resume_check"]
    /\ UNCHANGED <<jit_vars, addr_vars, states, scripts_list, instances_list,
                   unlocked>>

\* ResumeCheck without the test of the instance list
ResumeCheck_NoInstance(t) ==
    /\ threads[t].pc = "resume_check"
    /\ Quiet
    /\ unlocked' = Access(t, "resume")
    /\ IF threads[t].self \notin scripts_list
       THEN /\ mutex' = Release(t)
            /\ threads' = [threads EXCEPT ![t] = Returned(@, Nil)]
       ELSE /\ mutex' = mutex
            /\ threads' = [threads EXCEPT ![t].pc = "resume_remove"]
    /\ UNCHANGED <<jit_vars, addr_vars, states, scripts_list, instances_list>>

\* ResumeCheck with the lock given up between the test and the removal
ResumeCheck_Unlocks(t) ==
    /\ threads[t].pc = "resume_check"
    /\ Quiet
    /\ unlocked' = Access(t, "resume")
    /\ mutex' = Release(t)
    /\ IF \/ threads[t].self \notin scripts_list
          \/ /\ states[threads[t].self].instance
             /\ threads[t].self \notin instances_list
       THEN threads' = [threads EXCEPT ![t] = Returned(@, Nil)]
       ELSE threads' = [threads EXCEPT ![t].pc = "resume_remove"]
    /\ UNCHANGED <<jit_vars, addr_vars, states, scripts_list, instances_list>>

\* ResumeCheck without the test of the script list
ResumeCheck_NoScript(t) ==
    /\ threads[t].pc = "resume_check"
    /\ Quiet
    /\ unlocked' = Access(t, "resume")
    /\ IF /\ states[threads[t].self].instance
          /\ threads[t].self \notin instances_list
       THEN /\ mutex' = Release(t)
            /\ threads' = [threads EXCEPT ![t] = Returned(@, Nil)]
       ELSE /\ mutex' = mutex
            /\ threads' = [threads EXCEPT ![t].pc = "resume_remove"]
    /\ UNCHANGED <<jit_vars, addr_vars, states, scripts_list, instances_list>>

\* the two tests under the lock: the script list, then the instance list;
\* a failed test returns Variant() and the lock goes out of scope
ResumeCheck(t) ==
    /\ threads[t].pc = "resume_check"
    /\ Quiet
    /\ unlocked' = Access(t, "resume")
    /\ IF \/ threads[t].self \notin scripts_list
          \/ /\ states[threads[t].self].instance
             /\ threads[t].self \notin instances_list
       THEN /\ mutex' = Release(t)
            /\ threads' = [threads EXCEPT ![t] = Returned(@, Nil)]
       ELSE /\ mutex' = mutex
            /\ threads' = [threads EXCEPT ![t].pc = "resume_remove"]
    /\ UNCHANGED <<jit_vars, addr_vars, states, scripts_list, instances_list>>

\* ResumeRemove that leaves the call in the script list
ResumeRemove_KeepsScript(t) ==
    /\ threads[t].pc = "resume_remove"
    /\ Quiet
    /\ unlocked' = Access(t, "resume")
    /\ instances_list' = instances_list \ {threads[t].self}
    /\ mutex' = Release(t)
    /\ threads' = [threads EXCEPT ![t].pc = "resume_call"]
    /\ UNCHANGED <<jit_vars, addr_vars, states, scripts_list>>

\* scripts_list.remove_from_list(); instances_list.remove_from_list(); the
\* locked block ends
ResumeRemove(t) ==
    /\ threads[t].pc = "resume_remove"
    /\ Quiet
    /\ unlocked' = Access(t, "resume")
    /\ scripts_list' = scripts_list \ {threads[t].self}
    /\ instances_list' = instances_list \ {threads[t].self}
    /\ mutex' = Release(t)
    /\ threads' = [threads EXCEPT ![t].pc = "resume_call"]
    /\ UNCHANGED <<jit_vars, addr_vars, states>>

\* ResumeCall that enters the interpreter without storing p_arg
ResumeCall_NoResult(t) ==
    /\ threads[t].pc = "resume_call"
    /\ Quiet
    /\ states' = [states EXCEPT ![threads[t].self] =
           [@ EXCEPT !.entered = @ + 1]]
    /\ unlocked' = IF mutex = t THEN unlocked \cup {"call"} ELSE unlocked
    /\ threads' = [threads EXCEPT ![t] =
           [@ EXCEPT !.pc = "in_call", !.entered = TRUE]]
    /\ UNCHANGED <<jit_vars, addr_vars, scripts_list, instances_list, mutex>>

\* state.result = p_arg; function->call(nullptr, nullptr, 0, err, &state):
\* the interpreter is entered with the pending result it will see
ResumeCall(t) ==
    /\ threads[t].pc = "resume_call"
    /\ Quiet
    /\ states' = [states EXCEPT ![threads[t].self] =
           [@ EXCEPT !.result = threads[t].p_arg, !.entered = @ + 1]]
    /\ unlocked' = IF mutex = t THEN unlocked \cup {"call"} ELSE unlocked
    /\ threads' = [threads EXCEPT ![t] =
           [@ EXCEPT !.pc = "in_call", !.entered = TRUE]]
    /\ UNCHANGED <<jit_vars, addr_vars, scripts_list, instances_list, mutex>>

\* the interpreter runs the function to its end and returns a value
InterpreterCompletes(t, value) ==
    /\ threads[t].pc = "in_call"
    /\ Quiet
    /\ threads' = [threads EXCEPT ![t] =
           [@ EXCEPT !.pc = "resume_finish", !.interp_ret = value]]
    /\ UNCHANGED <<jit_vars, addr_vars, states, scripts_list, instances_list,
                   mutex, unlocked>>

\* the interpreter reaches a wait point: it returns a new suspension n, of
\* the function being run or (a coroutine handed back as the result) of
\* another one, linked into the lists under the mutex
InterpreterSuspends(t, n, same) ==
    /\ threads[t].pc = "in_call"
    /\ Quiet
    /\ states[n] = NoState
    /\ \A m \in StateIds : m < n => states[m] # NoState
    /\ mutex = 0
    /\ LET s == threads[t].self
           f == IF same THEN states[s].function ELSE 3 - states[s].function
       IN  /\ states' = [states EXCEPT ![n] =
                  Suspended(f, states[s].instance, states[s].stack_size,
                            IF same THEN s ELSE n)]
           /\ scripts_list' = scripts_list \cup {n}
           /\ instances_list' =
                  IF states[s].instance THEN instances_list \cup {n}
                  ELSE instances_list
    /\ threads' = [threads EXCEPT ![t] =
           [@ EXCEPT !.pc = "resume_finish", !.interp_ret = StateRef(n)]]
    /\ UNCHANGED <<jit_vars, addr_vars, mutex, unlocked>>

\* _clear_stack: the slots from FIXED_ADDRESSES_MAX on are destroyed and
\* stack_size is set to 0
clear_stack(st) ==
    IF st.stack_size # 0
    THEN [st EXCEPT !.finalized =
                        @ \cup (FIXED_ADDRESSES_MAX .. st.stack_size - 1),
                    !.stack_size = 0]
    ELSE st

\* AfterCall that clears the stack whether or not the call completed
AfterCall_AlwaysClears(st, completed) ==
    clear_stack([st EXCEPT !.function = 0, !.result = Nil])

\* function = nullptr; state.result = Variant(); if (completed) _clear_stack()
AfterCall(st, completed) ==
    LET cleaned == [st EXCEPT !.function = 0, !.result = Nil]
    IN  IF completed THEN clear_stack(cleaned) ELSE cleaned

\* FirstStateFor that always names the resumed state
FirstStateFor_Self(s) == s

\* first_state.is_valid() ? first_state : Ref<GDScriptFunctionState>(this)
FirstStateFor(s) ==
    IF states[s].first_state # 0 THEN states[s].first_state ELSE s

\* the statements after the call: is ret a suspension of this function,
\* then it is given the first state of the chain; the rest is AfterCall
ResumeFinish(t) ==
    /\ threads[t].pc = "resume_finish"
    /\ Quiet
    /\ LET s == threads[t].self
           ret == threads[t].interp_ret
           gdfs == IF ret.type = "OBJECT" THEN ret.items[1] ELSE 0
           completed == ~(gdfs # 0 /\ states[gdfs].function = states[s].function)
       IN  /\ states' = [x \in StateIds |->
                  IF x = s THEN AfterCall(states[s], completed)
                  ELSE IF x = gdfs
                  THEN [states[x] EXCEPT
                           !.first_state = IF completed THEN @
                                           ELSE FirstStateFor(s),
                           !.handed_over = TRUE]
                  ELSE states[x]]
           /\ threads' = [threads EXCEPT ![t] =
                  Returned([@ EXCEPT !.completed = completed,
                                     !.stack_size_before = states[s].stack_size],
                           ret)]
    /\ UNCHANGED <<jit_vars, addr_vars, scripts_list, instances_list, mutex,
                   unlocked>>

\* if (function == nullptr) return false
is_valid_cheap(s) == states[s].function # 0

\* is_valid(p_extended_check) is called on s: the test of the function
\* pointer; without the extended check: return true
StartIsValid(t, s, p_extended_check) ==
    /\ Free(t)
    /\ Callable(s)
    /\ Quiet
    /\ threads' = [threads EXCEPT ![t] =
           LET th == [Begin(t, "is_valid", "is_valid_lock", s)
                         EXCEPT !.p_extended_check = p_extended_check]
           IN  IF ~is_valid_cheap(s)
               THEN [th EXCEPT !.ret = BoolValue(FALSE), !.pc = "returned"]
               ELSE IF p_extended_check THEN th
               ELSE [th EXCEPT !.ret = BoolValue(TRUE), !.pc = "returned"]]
    /\ UNCHANGED <<jit_vars, addr_vars, states, scripts_list, instances_list,
                   mutex, unlocked>>

IsValidLock(t) ==
    /\ threads[t].pc = "is_valid_lock"
    /\ Quiet
    /\ mutex = 0
    /\ mutex' = t
    /\ threads' = [threads EXCEPT ![t].pc = "is_valid_check"]
    /\ UNCHANGED <<jit_vars, addr_vars, states, scripts_list, instances_list,
                   unlocked>>

\* is_valid_extended without the test of the instance list
is_valid_extended_NoInstance(s) == s \in scripts_list

\* the two tests of the extended check
is_valid_extended(s) ==
    IF s \notin scripts_list THEN FALSE
    ELSE IF states[s].instance /\ s \notin instances_list THEN FALSE
    ELSE TRUE

\* the extended check under the lock; the lock goes out of scope
IsValidCheck(t) ==
    /\ threads[t].pc = "is_valid_check"
    /\ Quiet
    /\ unlocked' = Access(t, "is_valid")
    /\ mutex' = Release(t)
    /\ threads' = [threads EXCEPT ![t] =
           [@ EXCEPT !.ret = BoolValue(is_valid_extended(threads[t].self)),
                     !.pc = "returned"]]
    /\ UNCHANGED <<jit_vars, addr_vars, states, scripts_list, instances_list>>

\* for (int i = 0; i < p_argcount - 1; i++) extra_args.push_back(*p_args[i])
RECURSIVE extra_args(_, _, _)
extra_args(p_args, i, p_argcount) ==
    IF i < p_argcount - 1
    THEN <<p_args[i + 1].items[1]>> \o extra_args(p_args, i + 1, p_argcount)
    ELSE <<>>

\* callback_arg taking the last argument when there are two
callback_arg_Last(p_args, p_argcount) ==
    IF p_argcount = 1 THEN Nil
    ELSE IF p_argcount = 2 THEN p_args[2]
    ELSE ArrayValue(extra_args(p_args, 0, p_argcount))

\* the value handed to resume, by the number of arguments
callback_arg(p_args, p_argcount) ==
    IF p_argcount = 1 THEN Nil
    ELSE IF p_argcount = 2 THEN p_args[1]
    ELSE ArrayValue(extra_args(p_args, 0, p_argcount))

\* self_is_null that takes every last argument for a handle
self_is_null_Never(p_args, p_argcount) == FALSE

\* Ref<GDScriptFunctionState> self = *p_args[p_argcount - 1]; self.is_null()
self_is_null(p_args, p_argcount) ==
    LET last == p_args[p_argcount]
    IN  ~(last.type = "OBJECT" /\ last.items[1] # 0)

\* _signal_callback(p_args, p_argcount, r_error) is called on s, up to
\* the first statement of the resume it calls
SignalCallback(t, s, p_args) ==
    /\ Free(t)
    /\ Callable(s)
    /\ Quiet
    /\ threads' = [threads EXCEPT ![t] =
           LET p_argcount == Len(p_args)
               th == [Begin(t, "signal_callback", "resume_lock", s)
                         EXCEPT !.p_args = p_args]
           IN  IF p_argcount = 0
               THEN [th EXCEPT !.error = "CALL_ERROR_TOO_FEW_ARGUMENTS",
                               !.expected = 1,
                               !.ret = Nil, !.pc = "returned"]
               ELSE IF self_is_null(p_args, p_argcount)
               THEN [th EXCEPT !.error = "CALL_ERROR_INVALID_ARGUMENT",
                               !.argument = p_argcount - 1,
                               !.expected = VARIANT_OBJECT,
                               !.ret = Nil, !.pc = "returned"]
               ELSE LET called ==
                            [th EXCEPT
                                !.p_arg = callback_arg(p_args, p_argcount),
                                !.resume_calls = @ + 1]
                    IN  IF states[s].function = 0
                        THEN Returned(called, Nil)
                        ELSE called]
    /\ UNCHANGED <<jit_vars, addr_vars, states, scripts_list, instances_list,
                   mutex, unlocked>>

\* return resume(arg)
SignalCallbackReturn(t) ==
    /\ threads[t].pc = "callback_return"
    /\ Quiet
    /\ threads' = [threads EXCEPT ![t] =
           [@ EXCEPT !.ret = threads[t].resume_ret, !.pc = "returned"]]
    /\ UNCHANGED <<jit_vars, addr_vars, states, scripts_list, instances_list,
                   mutex, unlocked>>

\* the last reference to s is dropped (no call on s is running, no
\* suspension names it as its first state) and the destructor takes the
\* mutex
StartDestructor(t, s) ==
    /\ Free(t)
    /\ Callable(s)
    /\ Quiet
    /\ \A u \in Threads : Busy(u) => threads[u].self # s
    /\ \A x \in StateIds : states[x].exists => states[x].first_state # s
    /\ mutex = 0
    /\ mutex' = t
    /\ threads' = [threads EXCEPT ![t] =
           Begin(t, "destructor", "destructor_remove", s)]
    /\ states' = [states EXCEPT ![s].handed_over = FALSE]
    /\ UNCHANGED <<jit_vars, addr_vars, scripts_list, instances_list, unlocked>>

\* the state is taken out of both lists, the lock goes out of scope and
\* the object is gone
DestructorRemove(t) ==
    /\ threads[t].pc = "destructor_remove"
    /\ Quiet
    /\ unlocked' = Access(t, "destructor")
    /\ scripts_list' = scripts_list \ {threads[t].self}
    /\ instances_list' = instances_list \ {threads[t].self}
    /\ mutex' = Release(t)
    /\ states' = [states EXCEPT ![threads[t].self].exists = FALSE]
    /\ threads' = [threads EXCEPT ![t].pc = "returned"]
    /\ UNCHANGED <<jit_vars, addr_vars>>

\* the caller has the result of the call
Leave(t) ==
    /\ threads[t].pc = "returned"
    /\ threads' = [threads EXCEPT ![t] =
           [IdleThread EXCEPT !.ops = threads[t].ops]]
    /\ UNCHANGED <<jit_vars, addr_vars, states, scripts_list, instances_list,
                   mutex, unlocked>>

\* the script is torn down: under the mutex, its list of pending calls is
\* emptied
ScriptTeardown ==
    /\ Quiet
    /\ mutex = 0
    /\ scripts_list # {}
    /\ scripts_list' = {}
    /\ UNCHANGED <<jit_vars, addr_vars, states, instances_list, mutex, threads,
                   unlocked>>

\* the instance is freed: under the mutex, its list of pending calls is
\* emptied
InstanceTeardown ==
    /\ Quiet
    /\ mutex = 0
    /\ instances_list # {}
    /\ instances_list' = {}
    /\ UNCHANGED <<jit_vars, addr_vars, states, scripts_list, mutex, threads,
                   unlocked>>

\* the threads that can make a call now, and the states they can call into
Callers == {t \in Threads : Quiet /\ Free(t)}
Targets == {s \in StateIds : Callable(s)}

StateNext ==
    \/ \E t \in Callers, s \in Targets, v \in ResumeArgs : StartResume(t, s, v)
    \/ \E t \in Threads : ResumeLock(t)
    \/ \E t \in Threads : ResumeCheck(t)
    \/ \E t \in Threads : ResumeRemove(t)
    \/ \E t \in Threads : ResumeCall(t)
    \/ \E t \in Threads, value \in InterpValues : InterpreterCompletes(t, value)
    \/ \E t \in Threads, n \in StateIds, same \in BOOLEAN :
          InterpreterSuspends(t, n, same)
    \/ \E t \in Threads : ResumeFinish(t)
    \/ \E t \in Callers, s \in Targets, e \in BOOLEAN : StartIsValid(t, s, e)
    \/ \E t \in Threads : IsValidLock(t)
    \/ \E t \in Threads : IsValidCheck(t)
    \/ \E t \in Callers, s \in Targets :
          \E p_args \in CallbackArgs(s) : SignalCallback(t, s, p_args)
    \/ \E t \in Threads : SignalCallbackReturn(t)
    \/ \E t \in Callers, s \in Targets : StartDestructor(t, s)
    \/ \E t \in Threads : DestructorRemove(t)
    \/ ScriptTeardown
    \/ InstanceTeardown
    \/ \E t \in Threads : Leave(t)

SpecState == StateInit /\ [][StateNext]_vars

(***************************************************************************)
(* Properties.                                                             *)
(***************************************************************************)
\* prepare_native_jit has returned on a function that has code
Prepared == pc = "done" /\ ~code_is_null

\* the scan of prepare_native_jit is over
Scanned == pc \in {"filter", "index", "done"} /\ ~code_is_null

Eligible(p) == is_supported(_code_ptr[p + 1])

\* the positions where the instructions of the stream start, from p on
RECURSIVE InstrStarts(_)
InstrStarts(p) ==
    IF p < 0 \/ p >= _code_size THEN {}
    ELSE {p} \cup InstrStarts(p + opcode_size_at(DefaultMem, p))

\* the position after the run of eligible instructions that starts at p
RECURSIVE RunEnd(_)
RunEnd(p) ==
    IF p >= _code_size \/ ~Eligible(p) THEN p
    ELSE RunEnd(p + opcode_size_at(DefaultMem, p))

\* the maximal runs of eligible instructions, as <<first, past-the-end>>
MaximalRuns ==
    LET starts == InstrStarts(0)
        first(p) == /\ Eligible(p)
                    /\ \A q \in starts :
                          q + opcode_size_at(DefaultMem, q) = p
                              => ~Eligible(q)
    IN  {<<p, RunEnd(p)>> : p \in {q \in starts : first(q)}}

Ranges(segs) == {<<segs[i].start_ip, segs[i].end_ip>> : i \in 1 .. Len(segs)}

\* C1: the segments of native_operator_segments are strictly ordered by
\* start_ip and do not overlap: the end_ip of a segment is at most the
\* start_ip of the next one.
C1_SegmentsOrdered ==
    \A i \in 1 .. Len(native_operator_segments) - 1 :
        /\ native_operator_segments[i].start_ip
               < native_operator_segments[i + 1].start_ip
        /\ native_operator_segments[i].end_ip
               <= native_operator_segments[i + 1].start_ip

\* two segments were retained, with instructions left between them
C1_Witness ==
    /\ Prepared
    /\ Len(native_operator_segments) >= 2
    /\ native_operator_segments[1].end_ip
           < native_operator_segments[2].start_ip

\* C2: the ranges of the scanned segments are exactly the maximal runs of
\* consecutive eligible instructions: every instruction in a range is
\* eligible and each run is covered by one segment, from its first
\* instruction to the first ineligible instruction or the end of the stream.
C2_ScanCoversMaximalRuns ==
    Scanned =>
        /\ Ranges(segments) = MaximalRuns
        /\ \A i \in 1 .. Len(segments) :
              \A q \in InstrStarts(segments[i].start_ip) :
                  q < segments[i].end_ip => Eligible(q)

\* C3: a retained segment has one step per instruction of its range.
C3_StepPerInstruction ==
    Prepared =>
        \A i \in 1 .. Len(native_operator_segments) :
            LET seg == native_operator_segments[i]
            IN  Len(seg.steps) =
                    Cardinality({q \in InstrStarts(seg.start_ip) :
                                     q < seg.end_ip})

\* C4: the final list holds, in scan order, exactly the scanned segments
\* that have at least 10 steps.
C4_ThresholdFilter ==
    Prepared =>
        /\ \A i \in 1 .. Len(native_operator_segments) :
              Len(native_operator_segments[i].steps) >= 10
        /\ \A j \in 1 .. Len(segments) :
              (Len(segments[j].steps) >= 10)
                  <=> (\E i \in 1 .. Len(native_operator_segments) :
                          native_operator_segments[i] = segments[j])
        /\ \A i1, i2 \in 1 .. Len(native_operator_segments) :
              i1 < i2 =>
                  \E j1, j2 \in 1 .. Len(segments) :
                      /\ j1 < j2
                      /\ segments[j1] = native_operator_segments[i1]
                      /\ segments[j2] = native_operator_segments[i2]

\* a segment of 9 steps was dropped and one of exactly 10 steps was kept
C4_Witness ==
    /\ Prepared
    /\ \E j \in 1 .. Len(segments) : Len(segments[j].steps) = 9
    /\ \E i \in 1 .. Len(native_operator_segments) :
          Len(native_operator_segments[i].steps) = 10
    /\ Len(native_operator_segments) < Len(segments)

\* C5: when native_segments_ready holds for a non-empty stream, the index
\* has one slot per position; the slot of p holds i exactly when retained
\* segment i starts at p, and -1 when no retained segment starts at p.
C5_IndexMatchesSegments ==
    (native_segments_ready /\ _code_size > 0) =>
        /\ Len(native_segment_index_by_ip) = _code_size
        /\ \A q \in 0 .. _code_size - 1 :
              LET slot == native_segment_index_by_ip[q + 1]
                  here == {i \in 0 .. Len(native_operator_segments) - 1 :
                              native_operator_segments[i + 1].start_ip = q}
              IN  /\ slot \in -1 .. Len(native_operator_segments) - 1
                  /\ \A i \in 0 .. Len(native_operator_segments) - 1 :
                        (slot = i) <=> (i \in here)
                  /\ (slot = -1) <=> (here = {})
        /\ Cardinality({q \in 0 .. _code_size - 1 :
                           native_segment_index_by_ip[q + 1] # -1})
               = Len(native_operator_segments)

\* the index of a second run points to two retained segments, the second
\* of them not at position 0
C5_Witness ==
    /\ native_segments_ready
    /\ runs = 2
    /\ Len(native_operator_segments) = 2
    /\ native_segment_index_by_ip[1] = 0
    /\ \E q \in 1 .. _code_size - 1 : native_segment_index_by_ip[q + 1] = 1

\* the current length of a bound table
TableLength(table) ==
    CASE table = "_operator_funcs_ptr" -> _operator_funcs_count
      [] table = "_setters_ptr" -> _setters_count
      [] table = "_getters_ptr" -> _getters_count
      [] table = "_keyed_setters_ptr" -> _keyed_setters_count
      [] table = "_keyed_getters_ptr" -> _keyed_getters_count
      [] table = "_indexed_setters_ptr" -> _indexed_setters_count
      [] table = "_indexed_getters_ptr" -> _indexed_getters_count
      [] table = "_builtin_methods_ptr" -> _builtin_methods_count
      [] table = "_utilities_ptr" -> _utilities_count
      [] table = "_gds_utilities_ptr" -> _gds_utilities_count

\* the table entry a step binds
BoundEntries(step) ==
    CASE step.kind = "STEP_OPERATOR" -> {step.evaluator}
      [] step.kind \in {"STEP_KEYED_SET", "STEP_INDEXED_SET",
                        "STEP_NAMED_SET"} -> {step.setter}
      [] step.kind \in {"STEP_KEYED_GET", "STEP_INDEXED_GET",
                        "STEP_NAMED_GET"} -> {step.getter}
      [] step.kind = "STEP_CALL_VALIDATED" -> {step.func}
      [] OTHER -> {}

\* every step built so far, in the pushed segments and in the open one
BuiltSteps ==
    UNION {{segments[i].steps[k] : k \in 1 .. Len(segments[i].steps)} :
              i \in 1 .. Len(segments)}
        \cup {segment.steps[k] : k \in 1 .. Len(segment.steps)}

\* C6: every step that binds a table entry was built from an index word idx
\* with 0 <= idx < the length of that table, the utility calls included.
C6_BoundIndexInRange ==
    \A step \in BuiltSteps :
        \A e \in BoundEntries(step) :
            0 <= e.index /\ e.index < TableLength(e.table)

\* C7: when a builder fails at position q, the open segment is closed with
\* end_ip = q, and the scan goes on behind it: an eligible instruction that
\* follows q and that its builder accepts starts or continues a segment.
C7_FailureIsLocal ==
    Scanned =>
        \A q \in failed :
            /\ \E i \in 1 .. Len(segments) : segments[i].end_ip = q
            /\ \A r \in InstrStarts(q) :
                  (r > q /\ Eligible(r) /\ BuildStep(DefaultMem, r).ok)
                      => \E i \in 1 .. Len(segments) :
                            /\ segments[i].start_ip <= r
                            /\ r < segments[i].end_ip
                            /\ segments[i].steps # <<>>

\* C8: a second run on the unchanged function leaves the segment list and
\* the index that the first run left.
C8_RerunSameResult ==
    (pc = "done" /\ prev_result.valid) =>
        /\ native_operator_segments = prev_result.segments
        /\ native_segment_index_by_ip = prev_result.index

\* C9: decoding an operand word and packing tag and index again gives the
\* word back.
C9_AddressRoundTrip ==
    addr_pc = "encoded" => addr_packed = addr_word

\* a word with the top tag bit set and a 24-bit index went round
C9_Witness ==
    /\ addr_pc = "encoded"
    /\ addr_word < 0
    /\ addr_type = 254
    /\ addr_index = 2 ^ ADDR_BITS - 1

\* the stream is n validated operator instructions, evaluators in range
IsOperatorStream(n) ==
    /\ ~code_is_null
    /\ Len(_code_ptr) = 5 * n
    /\ \A k \in 0 .. n - 1 :
          /\ _code_ptr[5 * k + 1] = OPCODE_OPERATOR_VALIDATED
          /\ 0 <= _code_ptr[5 * k + 5]
          /\ _code_ptr[5 * k + 5] < _operator_funcs_count

\* C10: n back-to-back validated operator instructions give, for n >= 10,
\* the one segment [0, 5n) of n steps with index slot 0 pointing to it, and
\* for n < 10 no segment and no index entry.
C10_OperatorStream ==
    \A n \in 0 .. MaxRun + 1 :
        (Prepared /\ IsOperatorStream(n)) =>
            IF n >= 10
            THEN /\ Len(native_operator_segments) = 1
                 /\ native_operator_segments[1].start_ip = 0
                 /\ native_operator_segments[1].end_ip = 5 * n
                 /\ Len(native_operator_segments[1].steps) = n
                 /\ \A k \in 1 .. n :
                       native_operator_segments[1].steps[k].kind
                           = "STEP_OPERATOR"
                 /\ native_segment_index_by_ip[1] = 0
            ELSE /\ native_operator_segments = <<>>
                 /\ \A q \in 1 .. Len(native_segment_index_by_ip) :
                       native_segment_index_by_ip[q] = -1
                 /\ Len(native_segment_index_by_ip) = 5 * n

\* a stream of 10 operator instructions was turned into its one segment
C10_Witness ==
    /\ Prepared
    /\ IsOperatorStream(10)
    /\ Len(native_operator_segments) = 1

\* C18: prepare_native_jit always runs to its return: every iteration of the
\* outer scan moves ip forward, every successfully decoded instruction
\* moves cursor forward, the run is never cut short, and it returns with
\* native_segments_ready set (with a null code pointer: also an empty
\* segment list and an empty index).
C18_PrepareTerminates ==
    /\ [][/\ (pc = "scan" /\ pc' = "scan") => ip' > ip
          /\ (pc = "extend" /\ pc' = "scan") => ip' > ip
          /\ (pc = "extend" /\ pc' = "extend"
                /\ Len(segment'.steps) > Len(segment.steps))
                   => cursor' > cursor]_vars
    /\ [](pc # "fault")
    /\ [](pc = "done" =>
            /\ native_segments_ready
            /\ (code_is_null => (/\ native_operator_segments = <<>>
                                 /\ native_segment_index_by_ip = <<>>)))

(***************************************************************************)
(* Properties of GDScriptFunctionState.                                    *)
(***************************************************************************)
\* the thread is in a resume, called directly or by _signal_callback
IsResume(th) ==
    th.op = "resume" \/ (th.op = "signal_callback" /\ th.resume_calls > 0)

\* that resume has returned, and what it returned
ResumeReturned(th) ==
    IsResume(th) /\ th.pc \in {"returned", "callback_return"}

ResumeValue(th) == IF th.op = "signal_callback" THEN th.resume_ret ELSE th.ret

\* the interpreter handed back a new suspension of the function of s
SuspendedAgain(th) ==
    /\ th.interp_ret.type = "OBJECT"
    /\ states[th.interp_ret.items[1]].created_by = th.self

\* C11: a resume called when the script is gone, or when the call is bound
\* to an instance that is gone, returns the empty value, never enters the
\* interpreter and changes nothing of the state or of the two lists; a state
\* that is rejected for this stays rejected, so every later resume is too.
C11_StaleResumeChangesNothing ==
    [][/\ \A t \in Threads :
             LET th == threads[t]
                 nth == threads'[t]
                 s == nth.self
                 called == th.pc = "idle" /\ IsResume(nth) /\ Stale(s)
                 goes_on == /\ IsResume(th)
                            /\ th.pc \in {"resume_lock", "resume_check"}
                            /\ Stale(s)
                            /\ nth # th
             IN  (called \/ goes_on) =>
                    /\ UNCHANGED <<states, scripts_list, instances_list>>
                    /\ ~nth.entered
                    /\ nth.pc \in {"resume_lock", "resume_check", "returned",
                                   "callback_return"}
                    /\ ResumeReturned(nth) => ResumeValue(nth) = Nil
       /\ \A s \in StateIds :
             (states[s].exists /\ Stale(s)) =>
                 \/ s \notin scripts_list'
                 \/ states'[s].instance /\ s \notin instances_list']_vars

\* the second call, a resume, has returned the empty value: the instance
\* was gone, the script and the function pointer still there, and nothing
\* of the state was touched
C11_Witness ==
    \E t \in Threads :
        /\ threads[t].op = "resume"
        /\ threads[t].pc = "returned"
        /\ threads[t].ops = 2
        /\ threads[t].ret = Nil
        /\ threads[t].self \in scripts_list
        /\ threads[t].self \notin instances_list
        /\ states[threads[t].self].instance
        /\ states[threads[t].self].function # 0
        /\ states[threads[t].self].stack_size = StackSize
        /\ states[threads[t].self].entered = 0

\* C12: the interpreter is entered at most once for a state; the resume that
\* enters has taken the state out of both lists and, once returned, has
\* cleared the function pointer; every other resume returns the empty value
\* without entering.
C12_InterpreterEnteredOnce ==
    /\ \A s \in StateIds : states[s].entered <= 1
    /\ \A t \in Threads :
          LET th == threads[t]
          IN  /\ (IsResume(th) /\ th.entered) =>
                    /\ th.self \notin scripts_list
                    /\ th.self \notin instances_list
                    /\ states[th.self].entered = 1
              /\ (ResumeReturned(th) /\ th.entered) =>
                    states[th.self].function = 0
              /\ (ResumeReturned(th) /\ ~th.entered) =>
                    ResumeValue(th) = Nil

\* while one resume is inside the interpreter, a second resume on the same
\* state has been rejected
C12_Witness ==
    \E t \in Threads, u \in Threads :
        /\ threads[t].pc = "in_call"
        /\ threads[u].op = "resume"
        /\ threads[u].pc = "returned"
        /\ threads[u].self = threads[t].self
        /\ ~threads[u].entered
        /\ threads[u].ret = Nil
        /\ states[threads[t].self].function # 0

\* the first suspension of the chain s belongs to
RECURSIVE RootOf(_)
RootOf(s) ==
    IF states[s].created_by \in {0, s} THEN s
    ELSE RootOf(states[s].created_by)

\* the resume that received s from the interpreter has not yet run the
\* statements after the call
BeingReturned(s) ==
    \E t \in Threads :
        threads[t].pc = "resume_finish" /\ threads[t].interp_ret = StateRef(s)

C14_CompletedResume ==
    \A t \in Threads :
        LET th == threads[t]
        IN  /\ th.pc = "in_call" => states[th.self].result = th.p_arg
            /\ (ResumeReturned(th) /\ th.entered /\ ~SuspendedAgain(th)) =>
                  /\ ResumeValue(th) = th.interp_ret
                  /\ states[th.self].result = Nil
                  /\ ~is_valid_cheap(th.self)
                  /\ ~(is_valid_cheap(th.self) /\ is_valid_extended(th.self))

\* resume(2) ran the call to its end and returned the 1 the call returned
C14_Witness ==
    \E t \in Threads :
        /\ threads[t].op = "resume"
        /\ threads[t].pc = "returned"
        /\ threads[t].entered
        /\ threads[t].p_arg = IntValue(2)
        /\ threads[t].interp_ret = IntValue(1)
        /\ threads[t].ret = IntValue(1)
        /\ states[threads[t].self].result = Nil

\* is_valid(false) and is_valid(true) as the claim states them
CheapValid(s) == states[s].function # 0
ExtendedValid(s) ==
    /\ states[s].function # 0
    /\ s \in scripts_list
    /\ ~states[s].instance \/ s \in instances_list

\* C15: is_valid(false) returns whether the function pointer is set;
\* is_valid(true) returns whether it is set, the state is in the script
\* list and, when bound to an instance, in the instance list, as of the
\* statement that decides; the extended answer implies the cheap one.
C15_IsValid ==
    /\ [][\A t \in Threads :
             LET th == threads[t]
                 nth == threads'[t]
                 decides ==
                     /\ nth.op = "is_valid"
                     /\ \/ th.pc = "idle" /\ nth.pc = "returned"
                        \/ th.pc = "is_valid_check" /\ nth.pc = "returned"
             IN  decides =>
                    nth.ret = BoolValue(IF nth.p_extended_check
                                        THEN ExtendedValid(nth.self)
                                        ELSE CheapValid(nth.self))]_vars
    /\ [](\A s \in StateIds : ExtendedValid(s) => CheapValid(s))
    /\ [](\A t \in Threads :
             (threads[t].op = "is_valid" /\ threads[t].pc = "returned")
                 => threads[t].ret \in {BoolValue(TRUE), BoolValue(FALSE)})

\* is_valid(true) has answered false for a state with its function pointer
\* set and its script alive: the instance it is bound to is gone
C15_Witness ==
    \E t \in Threads :
        /\ threads[t].op = "is_valid"
        /\ threads[t].pc = "returned"
        /\ threads[t].p_extended_check
        /\ threads[t].ret = BoolValue(FALSE)
        /\ states[threads[t].self].function # 0
        /\ threads[t].self \in scripts_list
        /\ threads[t].self \notin instances_list

\* the last of the arguments is a handle of a state
HandleLast(p_args) ==
    /\ Len(p_args) >= 1
    /\ p_args[Len(p_args)].type = "OBJECT"
    /\ p_args[Len(p_args)].items[1] # 0

\* what the claim says resume is called with
FoldedArgs(p_args) ==
    IF Len(p_args) = 1 THEN Nil
    ELSE IF Len(p_args) = 2 THEN p_args[1]
    ELSE ArrayValue([i \in 1 .. Len(p_args) - 1 |-> p_args[i].items[1]])

\* C16: _signal_callback with k >= 1 arguments, the last a state handle,
\* calls resume once: with the empty value for k = 1, the first argument for
\* k = 2, the first k - 1 arguments in order for k > 2; it returns what
\* resume returned.
C16_SignalCallbackFolds ==
    \A t \in Threads :
        LET th == threads[t]
        IN  (th.op = "signal_callback" /\ HandleLast(th.p_args)) =>
                /\ th.resume_calls = 1
                /\ th.p_arg = FoldedArgs(th.p_args)
                /\ th.error = "CALL_OK"
                /\ th.pc \in {"in_call", "resume_finish"} =>
                       states[th.self].result = FoldedArgs(th.p_args)
                /\ th.pc = "returned" =>
                       /\ th.ret = th.resume_ret
                       /\ th.entered => th.ret = th.interp_ret
                       /\ ~th.entered => th.ret = Nil

\* a signal with two values resumed the call with the two of them in order
\* and returned what the call returned
C16_Witness ==
    \E t \in Threads :
        /\ threads[t].op = "signal_callback"
        /\ threads[t].pc = "returned"
        /\ Len(threads[t].p_args) = 3
        /\ threads[t].entered
        /\ threads[t].p_arg = ArrayValue(<<2, 1>>)
        /\ threads[t].ret = IntValue(1)

\* the resume has passed the test of the two lists
Passed(th) ==
    /\ IsResume(th)
    /\ \/ th.pc \in {"resume_remove", "resume_call", "in_call",
                     "resume_finish"}
       \/ th.entered

\* C17: of two threads in resume on the same state at most one passes the
\* test and enters the interpreter: test and removal are one section under
\* the mutex, and the other thread finds the state not listed and returns
\* the empty value.
C17_OneThreadEnters ==
    /\ \A t \in Threads, u \in Threads :
          (t # u /\ threads[t].self = threads[u].self)
              => ~(Passed(threads[t]) /\ Passed(threads[u]))
    /\ \A t \in Threads :
          /\ threads[t].pc \in {"resume_check", "resume_remove"} => mutex = t
          /\ (threads[t].pc = "resume_remove" /\ mutex = t) =>
                ~Stale(threads[t].self)
          /\ (IsResume(threads[t]) /\ threads[t].pc = "returned"
                                   /\ ~Passed(threads[t])) =>
                threads[t].ret = Nil

\* two threads are in resume on a state that is still listed: one has
\* passed the test and holds the mutex, the other waits for it
C17_Witness ==
    \E t \in Threads, u \in Threads :
        /\ t # u
        /\ threads[t].self = threads[u].self
        /\ threads[t].op = "resume" /\ threads[u].op = "resume"
        /\ threads[t].pc = "resume_remove"
        /\ threads[u].pc = "resume_lock"
        /\ mutex = t
        /\ threads[t].self \in scripts_list

C20_ListsUnderMutex ==
    /\ unlocked = {}
    /\ \A t \in Threads :
          /\ threads[t].pc \in {"resume_check", "resume_remove",
                                "is_valid_check", "destructor_remove"}
                => mutex = t
          /\ threads[t].pc \in {"resume_call", "in_call", "resume_finish"}
                => mutex # t

\* one thread is inside the interpreter while another holds the mutex for
\* its extended is_valid
C20_Witness ==
    \E t \in Threads, u \in Threads :
        /\ threads[t].pc = "in_call"
        /\ threads[u].pc = "is_valid_check"
        /\ mutex = u
        /\ unlocked = {}

(***************************************************************************)
(* Properties of the reads and the segment bounds of prepare_native_jit.   *)
(***************************************************************************)
\* C22: every read of the instruction stream made by prepare_native_jit is
\* at a position p with 0 <= p < _code_size, also when the last instruction
\* is cut short or the argument count of a call points behind the stream.
C22_ReadsInStream == oob_reads = {}

\* the words an instruction occupies in the stream: those of its opcode
InstrWords(p) ==
    IF _code_ptr[p + 1] = OPCODE_ASSIGN THEN 3
    ELSE opcode_size_at(DefaultMem, p)

\* the positions where the instructions of the stream start
RECURSIVE Boundaries(_)
Boundaries(p) ==
    IF p < 0 \/ p >= _code_size THEN {}
    ELSE {p} \cup Boundaries(p + InstrWords(p))

\* C23: every segment of the scan starts at the first word of an
\* instruction: an operand word of an ineligible instruction never opens a
\* segment, whatever its value.
C23_SegmentsStartAtBoundary ==
    \A i \in 1 .. Len(segments) : segments[i].start_ip \in Boundaries(0)

\* C24: every retained segment has 0 <= start_ip < end_ip <= _code_size.
C24_RetainedSegmentBounds ==
    Prepared =>
        \A i \in 1 .. Len(native_operator_segments) :
            /\ 0 <= native_operator_segments[i].start_ip
            /\ native_operator_segments[i].start_ip
                   < native_operator_segments[i].end_ip
            /\ native_operator_segments[i].end_ip <= _code_size

(***************************************************************************)
(* Properties of the stale check and of the errors of _signal_callback.    *)
(***************************************************************************)
\* a resume called on s now gets through its tests and enters the
\* interpreter: the function is set, the script is registered, and so is
\* the instance when the call is bound to one
ResumeWouldEnter(s) ==
    /\ states[s].function # 0
    /\ s \in scripts_list
    /\ states[s].instance => s \in instances_list

\* C21: is_valid(true) returns true exactly when a resume called in the
\* state of its decision would get through its tests and enter the
\* interpreter; and a resume goes on to the interpreter only from its locked
\* test, and only when at that test the script, and the instance of a bound
\* call, are registered, whatever teardown runs beside the call.
C21_ValidIffResumeEnters ==
    [][\A t \in Threads :
          LET th == threads[t]
              next == threads'[t]
              s == next.self
          IN  /\ (next.op = "is_valid" /\ next.p_extended_check
                    /\ next.pc = "returned" /\ th.pc # "returned")
                   => (next.ret = BoolValue(ResumeWouldEnter(s)))
              /\ (th.pc = "resume_check" /\ next.pc # "resume_check")
                   => /\ (next.pc = "resume_remove") <=> ResumeWouldEnter(s)
                      /\ next.pc = "resume_remove" => mutex = t
              /\ (next.pc = "resume_remove" /\ th.pc # "resume_remove")
                   => th.pc = "resume_check"
              /\ (next.pc = "resume_call" /\ th.pc # "resume_call")
                   => th.pc = "resume_remove"
              /\ (next.pc = "in_call" /\ th.pc # "in_call")
                   => th.pc = "resume_call"]_vars

\* a resume was called while the call was usable, the instance was freed
\* before its locked test, and an is_valid(true) made then returned false
C21_Witness ==
    \E t \in Threads, u \in Threads :
        /\ threads[t].op = "resume"
        /\ threads[t].pc = "resume_lock"
        /\ threads[u].op = "is_valid"
        /\ threads[u].p_extended_check
        /\ threads[u].pc = "returned"
        /\ threads[u].ret = BoolValue(FALSE)
        /\ threads[u].self = threads[t].self
        /\ states[threads[t].self].function # 0
        /\ states[threads[t].self].instance
        /\ threads[t].self \in scripts_list
        /\ threads[t].self \notin instances_list

\* the last argument of the call is not a handle of a live object
BadHandle(p_args) ==
    p_args # <<>> /\ ~(/\ p_args[Len(p_args)].type = "OBJECT"
                       /\ p_args[Len(p_args)].items[1] # 0)

\* C25: _signal_callback given no argument reports
\* CALL_ERROR_TOO_FEW_ARGUMENTS with expected = 1; given a last argument
\* that is not a non-null handle it reports CALL_ERROR_INVALID_ARGUMENT for
\* the position of the last argument, expecting an object; in both cases
\* it returns Variant() without calling resume and leaves the state, its
\* stack and its membership of the two lists as they were.
C25_CallbackErrors ==
    [][\A t \in Threads :
          LET th == threads'[t]
          IN  (th.op = "signal_callback" /\ threads[t].op # "signal_callback"
                 /\ (th.p_args = <<>> \/ BadHandle(th.p_args)))
                => /\ th.pc = "returned"
                   /\ th.ret = Nil
                   /\ th.resume_calls = 0
                   /\ ~th.entered
                   /\ IF th.p_args = <<>>
                      THEN /\ th.error = "CALL_ERROR_TOO_FEW_ARGUMENTS"
                           /\ th.expected = 1
                      ELSE /\ th.error = "CALL_ERROR_INVALID_ARGUMENT"
                           /\ th.argument = Len(th.p_args) - 1
                           /\ th.expected = VARIANT_OBJECT
                   /\ UNCHANGED <<states, scripts_list, instances_list>>]_vars

\* a callback with two values and a null object as its last argument was
\* refused: position 2 is reported, and the call is still pending
C25_Witness ==
    \E t \in Threads :
        /\ threads[t].op = "signal_callback"
        /\ threads[t].pc = "returned"
        /\ threads[t].error = "CALL_ERROR_INVALID_ARGUMENT"
        /\ threads[t].argument = MaxArgs - 1
        /\ threads[t].p_args[MaxArgs] = StateRef(0)
        /\ states[threads[t].self].function # 0
        /\ states[threads[t].self].stack_size = StackSize
        /\ threads[t].self \in scripts_list

=============================================================================
